---- MODULE Spec2Model ----
\* Model of data/fetch_data.py: the unified OHLCV fetcher (cache, provider
\* fallback, column normalization).
EXTENDS Integers, Sequences, FiniteSets, TLC

VARIABLES
    cache,      \* _CACHE: cache key -> [ts, df], df a reference into heap
    heap,       \* the live DataFrame objects: reference -> table
    clock,      \* the wall clock in whole seconds, as _now() reads it
    ticks,      \* how many times the clock has advanced
    calls,      \* how many fetch_ohlcv calls have been made
    held,       \* the reference the last successful call handed to its caller (0: none)
    apikey,     \* the environment's POLYGON_API_KEY ("" when unset)
    last,       \* the record of the last fetch_ohlcv call
    stored,     \* history: cache key -> what the last successful call for it returned, when,
            \* with which events and for which provider preference
    dirty,      \* history: the cache keys whose handed-out Series a caller has edited
    heldkey,    \* history: the cache key of the call that handed out held
    op,         \* the operation that produced this state
    nraw,       \* normalization harness: the raw table
    nonce,      \* normalization harness: _normalize_df(raw)
    ntwice,     \* normalization harness: _normalize_df(_normalize_df(raw))
    npc,        \* normalization harness: position
    lcd,        \* the outcome of latest_close_date on the Series last handed out
    kreq,       \* cache key harness: a pair of requests
    kkey,       \* cache key harness: their cache keys
    thr,        \* concurrent callers: thread -> position and locals of its call
    wids        \* history: cache key -> number of the write that made its entry

normVars == <<nraw, nonce, ntwice, npc>>
auxVars == <<lcd, kreq, kkey, thr, wids>>
vars == <<cache, heap, clock, ticks, calls, held, apikey, last, stored, dirty, heldkey, op,
          nraw, nonce, ntwice, npc, lcd, kreq, kkey, thr, wids>>

----------------------------------------------------------------------------
\* Bounds

MaxCalls == 2       \* fetch_ohlcv calls in a run of the cached fetcher
MaxTicks == 2       \* clock advances in a run of the cached fetcher
CachedRows == 1     \* rows of a provider answer in a run of the cached fetcher
CachedDays == 1     \* distinct dates in a run of the cached fetcher
MaxRows == 2        \* rows of a provider answer in a single call
MaxDay == 2         \* distinct dates in a single call
MaxThreads == 3     \* concurrent callers
ConcTicks == 1      \* clock advances while callers run concurrently

----------------------------------------------------------------------------
\* Text: a str is a sequence of one-character strings.

LowerChars == <<"a","b","c","d","e","f","g","h","i","j","k","l","m","n","o","p","q","r","s","t","u","v","w","x","y","z">>
UpperChars == <<"A","B","C","D","E","F","G","H","I","J","K","L","M","N","O","P","Q","R","S","T","U","V","W","X","Y","Z">>

IsLowerChar(c) == \E i \in 1..26 : LowerChars[i] = c
IsUpperChar(c) == \E i \in 1..26 : UpperChars[i] = c
IsCased(c) == IsLowerChar(c) \/ IsUpperChar(c)
IsSpace(c) == c \in {" ", "\t", "\n"}

CharLower(c) == IF IsUpperChar(c) THEN LowerChars[CHOOSE i \in 1..26 : UpperChars[i] = c] ELSE c
CharUpper(c) == IF IsLowerChar(c) THEN UpperChars[CHOOSE i \in 1..26 : LowerChars[i] = c] ELSE c

\* str.lower(), str.upper()
StrLower(s) == [i \in 1..Len(s) |-> CharLower(s[i])]
StrUpper(s) == [i \in 1..Len(s) |-> CharUpper(s[i])]

\* str.title(): a cased character is upper-cased when it starts a word
\* (follows an uncased character or nothing) and lower-cased otherwise.
StrTitle(s) ==
    [i \in 1..Len(s) |->
        IF i > 1 /\ IsCased(s[i-1]) THEN CharLower(s[i]) ELSE CharUpper(s[i])]

RECURSIVE LStrip(_)
LStrip(s) == IF s # <<>> /\ IsSpace(Head(s)) THEN LStrip(Tail(s)) ELSE s

RECURSIVE RStrip(_)
RStrip(s) ==
    IF s # <<>> /\ IsSpace(s[Len(s)]) THEN RStrip(SubSeq(s, 1, Len(s) - 1)) ELSE s

\* str.strip()
StrStrip(s) == RStrip(LStrip(s))

\* "sep".join(parts)
RECURSIVE StrJoin(_, _)
StrJoin(sep, parts) ==
    IF parts = <<>> THEN <<>>
    ELSE IF Len(parts) = 1 THEN parts[1]
    ELSE parts[1] \o sep \o StrJoin(sep, Tail(parts))

\* Column names of the canonical schema.
sClose == <<"C","l","o","s","e">>
sAdjClose == <<"A","d","j"," ","C","l","o","s","e">>
sOpen == <<"O","p","e","n">>
sHigh == <<"H","i","g","h">>
sLow == <<"L","o","w">>
sVolume == <<"V","o","l","u","m","e">>

----------------------------------------------------------------------------
\* Tables: a DataFrame is its column labels and its rows; a row is its index
\* label and one value per column.  NaN is the missing value.

NaN == -1

\* An index label is a date string or a Timestamp of a day.
Label(k, d) == [k |-> k, d |-> d]

\* pd.to_datetime(index): every label becomes a Timestamp.
ToDatetime(l) == [k |-> "ts", d |-> l.d]

NoDf == [cols |-> <<>>, rows |-> <<>>]
\* The outcome of a call: a DataFrame, or the exception it raised
\* (its type, its message, and the value the message interpolates).
Exc(type, what, about) == [type |-> type, what |-> what, about |-> about]
NoError == Exc("", "", <<>>)
Success(df) == [ok |-> TRUE, df |-> df, exc |-> NoError]
Failure(e) == [ok |-> FALSE, df |-> NoDf, exc |-> e]
NotCalled == Failure(Exc("NotCalled", "", <<>>))

HasCol(df, name) == \E i \in 1..Len(df.cols) : df.cols[i] = name
ColIdx(df, name) == CHOOSE i \in 1..Len(df.cols) : df.cols[i] = name

\* the rename dictionary of _normalize_df
RenameDict(c) ==
    CASE c = <<"o","p","e","n">> -> sOpen
      [] c = <<"h","i","g","h">> -> sHigh
      [] c = <<"l","o","w">> -> sLow
      [] c = <<"c","l","o","s","e">> -> sClose
      [] c = <<"v","o","l","u","m","e">> -> sVolume
      [] c = <<"a","d","j","c","l","o","s","e">> -> sAdjClose
      [] c = <<"a","d","j","_","c","l","o","s","e">> -> sAdjClose
      [] OTHER -> c

\* lambda c: c.strip().title()
StripTitle(c) == StrTitle(StrStrip(c))

\* df.rename(columns=lambda c: c.strip().title())
RenameTitle(df) == [df EXCEPT !.cols = [i \in 1..Len(df.cols) |-> StripTitle(df.cols[i])]]

\* df.rename(columns=rename)
RenameSynonyms(df) == [df EXCEPT !.cols = [i \in 1..Len(df.cols) |-> RenameDict(df.cols[i])]]

\* df["Adj Close"] = df["Close"]
AddAdjClose(df) ==
    [cols |-> Append(df.cols, sAdjClose),
     rows |-> [i \in 1..Len(df.rows) |->
                 [idx |-> df.rows[i].idx,
                  vals |-> Append(df.rows[i].vals, df.rows[i].vals[ColIdx(df, sClose)])]]]

\* (variant: the fill without the test for an existing Adj Close column)
FillAdjCloseUnchecked(df) ==
    IF HasCol(df, sClose) THEN AddAdjClose(df) ELSE df

\* if "Adj Close" not in df.columns and "Close" in df.columns
FillAdjClose(df) ==
    IF ~HasCol(df, sAdjClose) /\ HasCol(df, sClose) THEN AddAdjClose(df) ELSE df

\* df.index = pd.to_datetime(df.index)
ParseIndex(df) ==
    [df EXCEPT !.rows = [i \in 1..Len(df.rows) |->
                           [df.rows[i] EXCEPT !.idx = ToDatetime(df.rows[i].idx)]]]

\* the rows whose value in column c is not missing, in their order
RECURSIVE NotNaRows(_, _)
NotNaRows(rows, c) ==
    IF rows = <<>> THEN <<>>
    ELSE IF Head(rows).vals[c] # NaN THEN <<Head(rows)>> \o NotNaRows(Tail(rows), c)
    ELSE NotNaRows(Tail(rows), c)

\* df.dropna(subset=["Close"]): KeyError when there is no Close column
DropNaClose(df) ==
    IF ~HasCol(df, sClose) THEN Failure(Exc("KeyError", "", sClose))
    ELSE Success([df EXCEPT !.rows = NotNaRows(df.rows, ColIdx(df, sClose))])

\* _normalize_df(df)
normalize_df(df) ==
    DropNaClose(ParseIndex(FillAdjClose(RenameSynonyms(RenameTitle(df)))))

----------------------------------------------------------------------------
\* Requests and the environment's answers

None == <<"None">>

sAuto == <<"a","u","t","o">>
sPolygon == <<"p","o","l","y","g","o","n">>
sYahoo == <<"y","a","h","o","o">>
sFoo == <<"f","o","o">>

Tickers == {<<"A","a","p","l">>}
Intervals == {<<"1","d">>}
\* the intervals of a single call: daily, and three intraday values
CallIntervals == Intervals \cup {<<"1","m">>, <<"5","m">>, <<"1","h">>}
Starts == {None}
Ends == {None}
ApiKeys == {<<>>, <<"k">>}

\* provider arguments: the three values, two spellings in other case, an
\* unknown value
Providers == {sAuto, sPolygon, sYahoo, <<"Y","a","h","o","o">>, <<"A","U","T","O">>, sFoo}

\* datetime.utcnow().date().isoformat() and the date two years before it
Today == <<"2","6","-","1","1","-","0","3">>
TwoYearsAgo == <<"2","4","-","1","1","-","0","3">>

CloseValues == {NaN, 7}

\* the sequences over S of length at most n
SeqUpTo(S, n) == UNION {[1..k -> S] : k \in 0..n}

\* the "results" arrays of a Polygon JSON body, rows {t, c}
PolygonResults(days, rows) == SeqUpTo([t : 1..days, c : CloseValues], rows)

\* what the GET to Polygon can produce
PolygonResponses(days, rows) ==
    {[kind |-> "timeout", status |-> 0, results |-> <<>>],
     [kind |-> "http", status |-> 500, results |-> <<>>]}
    \cup {[kind |-> "http", status |-> 200, results |-> r] : r \in PolygonResults(days, rows)}

\* yf.download(auto_adjust=False) gives Close and Adj Close columns
YahooRow(d, c) ==
    [idx |-> Label("ts", d), vals |-> <<c, IF c = NaN THEN NaN ELSE c - 1>>]

YahooFrames(days, rows) ==
    {[cols |-> <<sClose, sAdjClose>>,
      rows |-> [i \in 1..Len(r) |-> YahooRow(r[i].t, r[i].c)]] :
        r \in PolygonResults(days, rows)}

\* what yf.download can produce
YahooResponses(days, rows) ==
    {[kind |-> "raise", df |-> NoDf]}
    \cup {[kind |-> "ok", df |-> f] : f \in YahooFrames(days, rows)}

\* the answers the providers can give in one call
World(days, rows) ==
    [polygon |-> PolygonResponses(days, rows), yahoo |-> YahooResponses(days, rows)]

----------------------------------------------------------------------------
\* Utilities

_TTL_SEC == 15 * 60

\* f"{k}={v}"
KeyValue(k, v) == k \o <<"=">> \o v

\* (variant: a key that leaves the provider out)
cache_key_no_provider(ticker, start, end, interval, provider) ==
    StrJoin(<<"|">>,
        << KeyValue(<<"e","n","d">>, end),
           KeyValue(<<"i","n","t","e","r","v","a","l">>, interval),
           KeyValue(<<"s","t","a","r","t">>, start),
           KeyValue(<<"t","i","c","k","e","r">>, ticker) >>)

\* _cache_key(**kw): the items sorted by keyword
cache_key(ticker, start, end, interval, provider) ==
    StrJoin(<<"|">>,
        << KeyValue(<<"e","n","d">>, end),
           KeyValue(<<"i","n","t","e","r","v","a","l">>, interval),
           KeyValue(<<"p","r","o","v","i","d","e","r">>, provider),
           KeyValue(<<"s","t","a","r","t">>, start),
           KeyValue(<<"t","i","c","k","e","r">>, ticker) >>)

\* the outcome of latest_close_date: a Timestamp, or the exception raised
NoDate == Label("ts", 0)
DateResult(d) == [ok |-> TRUE, date |-> d, exc |-> NoError]
DateFailure(e) == [ok |-> FALSE, date |-> NoDate, exc |-> e]
NotApplied == DateFailure(Exc("NotCalled", "", <<>>))

\* (variant: the first index label instead of the last)
latest_close_date_first(df) ==
    IF df.rows = <<>> THEN DateFailure(Exc("IndexError", "index out of bounds", <<>>))
    ELSE DateResult(ToDatetime(df.rows[1].idx))

\* latest_close_date(df): pd.to_datetime(df.index[-1])
latest_close_date(df) ==
    IF df.rows = <<>> THEN DateFailure(Exc("IndexError", "index out of bounds", <<>>))
    ELSE DateResult(ToDatetime(df.rows[Len(df.rows)].idx))

\* df.empty
IsEmpty(df) == df.rows = <<>> \/ df.cols = <<>>

----------------------------------------------------------------------------
\* Yahoo provider

\* _fetch_yahoo: one yf.download, then the empty check and _normalize_df
fetch_yahoo(ticker, start, end, interval, resp) ==
    IF resp.kind = "raise" THEN Failure(Exc("Exception", "yf.download", ticker))
    ELSE IF IsEmpty(resp.df) THEN Failure(Exc("ValueError", "No Yahoo data for", ticker))
    ELSE normalize_df(resp.df)

----------------------------------------------------------------------------
\* Polygon provider

\* the orders of 1..n
Orders(n) == {f \in [1..n -> 1..n] : \A i, j \in 1..n : i # j => f[i] # f[j]}

\* df.sort_index(): every arrangement of the rows with ascending labels
\* (the order of rows with equal labels is not fixed by the sort)
SortIndex(rows) ==
    { [i \in 1..Len(rows) |-> rows[f[i]]] : f \in
        {g \in Orders(Len(rows)) :
            \A i \in 1..(Len(rows) - 1) : rows[g[i]].idx.d <= rows[g[i+1]].idx.d} }

\* the DataFrame built from the results array: Date index from t, Close from
\* c, Adj Close set to Close
PolygonFrameRows(results) ==
    [i \in 1..Len(results) |->
        [idx |-> Label("ts", results[i].t), vals |-> <<results[i].c, results[i].c>>]]

\* _polygon_aggs: the outcomes of the one GET
polygon_aggs(ticker, start, end, timespan, multiplier, api_key, resp) ==
    IF resp.kind = "timeout" THEN {Failure(Exc("Timeout", "requests.get", <<>>))}
    ELSE IF resp.status # 200
        THEN {Failure(Exc("ValueError", "Polygon error", <<"5","0","0">>))}
    ELSE IF resp.results = <<>>
        THEN {Failure(Exc("ValueError", "No Polygon data for", ticker))}
    ELSE {Success([cols |-> <<sClose, sAdjClose>>, rows |-> r]) :
            r \in SortIndex(PolygonFrameRows(resp.results))}

\* the timespan _fetch_polygon asks for
Timespan(interval) ==
    IF StrLower(interval) \in {<<"1","m">>, <<"1","m","i","n">>, <<"m","i","n","u","t","e">>}
    THEN "minute" ELSE "day"

\* (variant: the credential check left out)
KeyMissingNever(api_key) == FALSE

\* if not api_key
KeyMissing(api_key) == api_key = <<>>

\* no aggregate request made
NoSpan == [timespan |-> "", mult |-> 0]

\* _fetch_polygon: the outcomes, each with the network calls it made and the
\* timespan and multiplier of its aggregate request
fetch_polygon(ticker, start, end, interval, api_key, resp) ==
    IF KeyMissing(api_key)
    THEN {[res |-> Failure(Exc("ValueError", "POLYGON_API_KEY not set.", <<>>)), net |-> <<>>,
           span |-> NoSpan]}
    ELSE {[res |-> r, net |-> <<"GET polygon">>, span |-> [timespan |-> Timespan(interval), mult |-> 1]] :
            r \in polygon_aggs(ticker, start, end, Timespan(interval), 1, api_key, resp)}

----------------------------------------------------------------------------
\* Unified fetch

\* provider = (provider or "auto").lower().strip()
NormProvider(provider) ==
    StrStrip(StrLower(IF provider = None \/ provider = <<>> THEN sAuto ELSE provider))

\* (variant: the age test with <= in place of <)
CacheFreshInclusive(c, key, now) == key \in DOMAIN c /\ now - c[key].ts <= _TTL_SEC

\* (variant: the age test with the comparison turned around)
CacheFreshReversed(c, key, now) == key \in DOMAIN c /\ now - c[key].ts > _TTL_SEC

\* cache_key in _CACHE and _now() - _CACHE[cache_key]["ts"] < _TTL_SEC
CacheFresh(c, key, now) == key \in DOMAIN c /\ now - c[key].ts < _TTL_SEC

\* provider in ("polygon", "auto")
TriesPolygon(provider) == provider \in {sPolygon, sAuto}

\* (variant: the except clause re-raises in auto mode too)
ReraisesAuto(provider) == provider \in {sPolygon, sAuto}

\* (variant: the except clause never re-raises)
ReraisesNever(provider) == FALSE

\* the except clause: a forced Polygon call re-raises
Reraises(provider) == provider = sPolygon

\* (variant: the Yahoo branch without the test that df is still None)
TriesYahooAlways(dfIsNone, provider) == provider \in {sYahoo, sAuto}

\* df is None and provider in ("yahoo", "auto")
TriesYahoo(dfIsNone, provider) == dfIsNone /\ provider \in {sYahoo, sAuto}

\* the try block: os.getenv, _fetch_polygon, and the except clause
PolygonStage(ticker, start, end, interval, provider, api_key, w) ==
    IF TriesPolygon(provider)
    THEN {[pres |-> o.res, span |-> o.span,
           raised |-> ~o.res.ok /\ Reraises(provider),
           events |-> <<"polygon">> \o o.net \o
                      (IF ~o.res.ok /\ ~Reraises(provider) THEN <<"warn">> ELSE <<>>)] :
            o \in UNION {fetch_polygon(ticker, start, end, interval, api_key, r) :
                            r \in w.polygon}}
    ELSE {[pres |-> NotCalled, span |-> NoSpan, raised |-> FALSE, events |-> <<>>]}

\* the Yahoo stage after a Polygon stage p
YahooStage(ticker, start, end, interval, provider, p, w) ==
    IF ~p.raised /\ TriesYahoo(~p.pres.ok, provider)
    THEN {[yres |-> fetch_yahoo(ticker, start, end, interval, r),
           events |-> <<"yahoo", "download yahoo">>] : r \in w.yahoo}
    ELSE {[yres |-> NotCalled, events |-> <<>>]}

\* df = _normalize_df(df), where df may still be None
FinalNormalize(p, y) ==
    IF p.pres.ok THEN normalize_df(p.pres.df)
    ELSE IF y.yres.ok THEN normalize_df(y.yres.df)
    ELSE Failure(Exc("AttributeError", "'NoneType' object has no attribute 'rename'", <<>>))

\* what the call ends with after its stages
CallResult(p, y) ==
    IF p.raised THEN p.pres
    ELSE IF y.yres # NotCalled /\ ~y.yres.ok THEN y.yres
    ELSE FinalNormalize(p, y)

\* the part of fetch_ohlcv after a cache miss: every outcome the providers allow
MissOutcomes(ticker, start, end, interval, provider, api_key, w) ==
    UNION { { [pres |-> p.pres, yres |-> y.yres, span |-> p.span,
               events |-> p.events \o y.events, res |-> CallResult(p, y)] :
                y \in YahooStage(ticker, start, end, interval, provider, p, w) } :
            p \in PolygonStage(ticker, start, end, interval, provider, api_key, w) }

\* a call's arguments as they enter the cache key: the defaults applied, the
\* ticker upper-cased, the provider lower-cased and stripped
CanonRequest(ticker, start, end, interval, provider) ==
    [ticker |-> StrUpper(ticker),
     start |-> IF start = None THEN TwoYearsAgo ELSE start,
     end |-> IF end = None THEN Today ELSE end,
     interval |-> interval,
     provider |-> NormProvider(provider)]

\* cache_key = _cache_key(ticker=..., start=..., end=..., interval=..., provider=...)
RequestKey(c) == cache_key(c.ticker, c.start, c.end, c.interval, c.provider)

\* a call's arguments after the defaults, with its cache key and, for each
\* value of the credential, the outcomes of a miss
Request(ticker, start, end, interval, provider, w) ==
    LET end1 == IF end = None THEN Today ELSE end
        start1 == IF start = None THEN TwoYearsAgo ELSE start
        prov == NormProvider(provider)
    IN [praw |-> provider, prov |-> prov, interval |-> interval,
        key |-> cache_key(StrUpper(ticker), start1, end1, interval, prov),
        outcomes |-> [k \in ApiKeys |->
                        MissOutcomes(ticker, start1, end1, interval, prov, k, w)]]

RequestsOver(intervals, w) ==
    {Request(t, s, e, i, p, w) :
        t \in Tickers, s \in Starts, e \in Ends, i \in intervals, p \in Providers}

Requests(w) == RequestsOver(Intervals, w)

CachedRequests == Requests(World(CachedDays, CachedRows))
SingleRequests == RequestsOver(CallIntervals, World(MaxDay, MaxRows))

----------------------------------------------------------------------------
\* Objects

\* a reference no live object has
FreshRef(h) == CHOOSE r \in 1..(Cardinality(DOMAIN h) + 1) : r \notin DOMAIN h

\* a new object holding df
NewObject(h, df) == [ref |-> FreshRef(h), heap |-> h @@ (FreshRef(h) :> df)]

\* (variant: the same object handed on instead of a copy)
DfAlias(h, src) == [ref |-> src, heap |-> h]

\* df.copy(): a new object with the contents of src
DfCopy(h, src) == [ref |-> FreshRef(h), heap |-> h @@ (FreshRef(h) :> h[src])]

\* the objects still referenced by the cache or the caller
Live(h, c, hd) ==
    [r \in {x \in DOMAIN h : x = hd \/ \E k \in DOMAIN c : c[k].df = x} |-> h[r]]

\* (variant: a store that keeps an entry already there)
CachePutIfAbsent(c, key, entry) ==
    [k \in DOMAIN c \cup {key} |-> IF k \in DOMAIN c THEN c[k] ELSE entry]

\* (variant: a store that keeps the newest entry only)
CachePutOnly(c, key, entry) == [k \in {key} |-> entry]

\* _CACHE[cache_key] = entry
CachePut(c, key, entry) ==
    [k \in DOMAIN c \cup {key} |-> IF k = key THEN entry ELSE c[k]]

----------------------------------------------------------------------------
\* State machine of the fetcher

NoCall ==
    [praw |-> <<>>, prov |-> <<>>, key |-> <<>>, hit |-> FALSE, since |-> -1,
     prior |-> NoDf, events |-> <<>>, pres |-> NotCalled, yres |-> NotCalled,
     res |-> NotCalled, wrote |-> FALSE, interval |-> <<>>, span |-> NoSpan]

NormIdle == nraw = NoDf /\ nonce = NotCalled /\ ntwice = NotCalled /\ npc = "off"

AuxIdle == lcd = NotApplied /\ kreq = <<>> /\ kkey = <<>> /\ thr = <<>> /\ wids = <<>>

Init ==
    /\ cache = <<>>
    /\ heap = <<>>
    /\ clock = 0
    /\ ticks = 0
    /\ calls = 0
    /\ held = 0
    /\ apikey \in ApiKeys
    /\ last = NoCall
    /\ stored = <<>>
    /\ dirty = {}
    /\ heldkey = <<>>
    /\ op = "init"
    /\ NormIdle
    /\ AuxIdle

\* the call's record: its request, and from the history the time since the
\* last successful call for its key (-1: none) and what that call returned
CallRecord(rq) ==
    [NoCall EXCEPT !.praw = rq.praw, !.prov = rq.prov, !.key = rq.key,
                   !.interval = rq.interval,
                   !.since = IF rq.key \in DOMAIN stored
                             THEN clock - stored[rq.key].at ELSE -1,
                   !.prior = IF rq.key \in DOMAIN stored
                             THEN stored[rq.key].df ELSE NoDf]

\* fetch_ohlcv served from the cache: return _CACHE[cache_key]["df"].copy()
FetchHit(rq) ==
    LET cp == DfCopy(heap, cache[rq.key].df) IN
    /\ held' = cp.ref
    /\ heldkey' = rq.key
    /\ heap' = Live(cp.heap, cache, cp.ref)
    /\ last' = [CallRecord(rq) EXCEPT !.hit = TRUE, !.res = Success(cp.heap[cp.ref])]
    /\ UNCHANGED <<cache, stored>>

\* (variant: the cache written whatever the call ended with)
StoresAlways(o) == TRUE

\* the call reaches the cache write: no adapter error left the function and
\* _normalize_df returned
Stores(o) == o.res.ok

\* fetch_ohlcv after a miss, with outcome o of the provider stages
FetchMiss(rq, o) ==
    LET obj == NewObject(heap, o.res.df)
        cp == DfCopy(obj.heap, obj.ref)
        entry == [ts |-> clock, df |-> cp.ref]
    IN
    /\ last' = [CallRecord(rq) EXCEPT !.events = o.events, !.pres = o.pres,
                                      !.yres = o.yres, !.res = o.res, !.wrote = Stores(o),
                                      !.span = o.span]
    /\ IF Stores(o)
       THEN /\ cache' = CachePut(cache, rq.key, entry)
            /\ held' = obj.ref
            /\ heldkey' = rq.key
            /\ heap' = Live(cp.heap, cache', obj.ref)
            /\ stored' = CachePut(stored, rq.key,
                                  [df |-> o.res.df, at |-> clock, events |-> o.events,
                                   by |-> rq.prov])
       ELSE UNCHANGED <<cache, held, heldkey, heap, stored>>

\* one call of fetch_ohlcv(ticker, start, end, interval, provider)
fetch_ohlcv(requests) ==
    /\ calls' = calls + 1
    /\ op' = "fetch"
    /\ UNCHANGED <<clock, ticks, apikey, dirty, normVars, auxVars>>
    /\ \E rq \in requests :
        IF CacheFresh(cache, rq.key, clock)
        THEN FetchHit(rq)
        ELSE \E o \in rq.outcomes[apikey] : FetchMiss(rq, o)

Fetch ==
    /\ calls < MaxCalls
    /\ fetch_ohlcv(CachedRequests)

\* time passes
TickSizes == {1, _TTL_SEC - 1}

Tick ==
    /\ ticks < MaxTicks
    /\ \E d \in TickSizes : clock' = clock + d
    /\ ticks' = ticks + 1
    /\ op' = "tick"
    /\ UNCHANGED <<cache, heap, calls, held, apikey, last, stored, dirty, heldkey, normVars,
                   auxVars>>

\* what a caller can do to the Series it was handed: df["Close"] = 0, or
\* dropping the last row in place
CallerEdits(df) ==
    {[df EXCEPT !.rows = [i \in 1..Len(df.rows) |->
                            [df.rows[i] EXCEPT !.vals[ColIdx(df, sClose)] = 0]]],
     [df EXCEPT !.rows = SubSeq(df.rows, 1, Len(df.rows) - 1)]} \ {df}

Mutate ==
    /\ held # 0
    /\ \E df \in CallerEdits(heap[held]) : heap' = [heap EXCEPT ![held] = df]
    /\ dirty' = dirty \cup {heldkey}
    /\ op' = "mutate"
    /\ UNCHANGED <<cache, clock, ticks, calls, held, apikey, last, stored, heldkey, normVars,
                   auxVars>>

Next == Fetch \/ Tick \/ Mutate

Spec == Init /\ [][Next]_vars

\* a single call against the full range of provider answers
FetchOnce ==
    /\ calls < 1
    /\ fetch_ohlcv(SingleRequests)

\* the caller applies latest_close_date to the Series it was handed
LatestCloseDate ==
    /\ held # 0
    /\ lcd = NotApplied
    /\ lcd' = latest_close_date(heap[held])
    /\ op' = "latest_close_date"
    /\ UNCHANGED <<cache, heap, clock, ticks, calls, held, apikey, last, stored, dirty,
                   heldkey, normVars, kreq, kkey, thr, wids>>

NextCall == FetchOnce \/ LatestCloseDate

SpecCall == Init /\ [][NextCall]_vars

----------------------------------------------------------------------------
\* _normalize_df on its own: raw tables with any spelling of the column
\* labels, date strings or Timestamps as index, missing values anywhere

CloseLabels == {sClose, <<"c","l","o","s","e">>, <<" ","C","L","O","S","E"," ">>}
AdjLabels ==
    {sAdjClose, <<"a","d","j","c","l","o","s","e">>, <<"a","d","j","_","c","l","o","s","e">>,
     <<"A","D","J"," ","C","L","O","S","E","\t">>}

\* the column labels of a raw table: a close column or none, an adjusted
\* close column or none, or only an open column
RawColumns ==
    {<<c>> : c \in CloseLabels} \cup {<<a>> : a \in AdjLabels} \cup {<<sOpen>>}
    \cup {<<c, a>> : c \in CloseLabels, a \in AdjLabels}
    \cup {<<sAdjClose, sClose>>}

\* the raw tables: the index holds date strings or Timestamps
RawTables ==
    UNION { { [cols |-> cols,
               rows |-> [i \in 1..Len(r) |-> [idx |-> Label(k, r[i].d), vals |-> r[i].vals]]] :
                r \in SeqUpTo([d : 1..MaxDay, vals : [1..Len(cols) -> CloseValues]], MaxRows) } :
            cols \in RawColumns, k \in {"str", "ts"} }

InitNorm ==
    /\ cache = <<>>
    /\ heap = <<>>
    /\ clock = 0
    /\ ticks = 0
    /\ calls = 0
    /\ held = 0
    /\ apikey = <<>>
    /\ last = NoCall
    /\ stored = <<>>
    /\ dirty = {}
    /\ heldkey = <<>>
    /\ op = "init"
    /\ AuxIdle
    /\ nraw \in RawTables
    /\ nonce = NotCalled
    /\ ntwice = NotCalled
    /\ npc = "raw"

NormalizeOnce ==
    /\ npc = "raw"
    /\ UNCHANGED auxVars
    /\ nonce' = normalize_df(nraw)
    /\ npc' = "once"
    /\ UNCHANGED <<cache, heap, clock, ticks, calls, held, apikey, last, stored, dirty,
                   heldkey, op, nraw, ntwice>>

NormalizeTwice ==
    /\ npc = "once"
    /\ nonce.ok
    /\ UNCHANGED auxVars
    /\ ntwice' = normalize_df(nonce.df)
    /\ npc' = "twice"
    /\ UNCHANGED <<cache, heap, clock, ticks, calls, held, apikey, last, stored, dirty,
                   heldkey, op, nraw, nonce>>

NextNorm == NormalizeOnce \/ NormalizeTwice

SpecNorm == InitNorm /\ [][NextNorm]_vars

----------------------------------------------------------------------------
\* The cache key on its own: pairs of requests, with field values that
\* contain the separators of the key

KeyTickers == {<<"A">>, <<"a">>}
KeyStarts == {None, TwoYearsAgo}
KeyEnds == {None, <<"E">>, <<"E","|","i","n","t","e","r","v","a","l","=","d">>}
KeyIntervals == {<<"d">>, <<"x">>, <<"d","|","i","n","t","e","r","v","a","l","=","x">>}
KeyProviders == {sAuto, <<"A","U","T","O">>, sYahoo}

KeyRequests ==
    [ticker : KeyTickers, start : KeyStarts, end : KeyEnds, interval : KeyIntervals,
     provider : KeyProviders]

KeyOf(r) == RequestKey(CanonRequest(r.ticker, r.start, r.end, r.interval, r.provider))

InitKey ==
    /\ cache = <<>>
    /\ heap = <<>>
    /\ clock = 0
    /\ ticks = 0
    /\ calls = 0
    /\ held = 0
    /\ apikey = <<>>
    /\ last = NoCall
    /\ stored = <<>>
    /\ dirty = {}
    /\ heldkey = <<>>
    /\ op = "init"
    /\ NormIdle
    /\ lcd = NotApplied /\ thr = <<>> /\ wids = <<>>
    /\ kreq \in KeyRequests \X KeyRequests
    /\ kkey = <<>>

ComputeKeys ==
    /\ kkey = <<>>
    /\ kkey' = <<KeyOf(kreq[1]), KeyOf(kreq[2])>>
    /\ UNCHANGED <<cache, heap, clock, ticks, calls, held, apikey, last, stored, dirty,
                   heldkey, op, normVars, lcd, kreq, thr, wids>>

NextKey == ComputeKeys

SpecKey == InitKey /\ [][NextKey]_vars

----------------------------------------------------------------------------
\* Concurrent callers: each thread makes one call of fetch_ohlcv; the threads
\* are numbered in the order in which their calls start. A thread's steps are
\* the pieces of fetch_ohlcv between which another thread can run: the key
\* and the freshness test, the read of the entry on a hit, and on a miss the
\* provider stages with the write of the entry. No lock is taken anywhere.

Threads == 1..MaxThreads

ConcProviders == {sYahoo, sAuto}
ConcRequests == {rq \in CachedRequests : rq.praw \in ConcProviders}

\* a thread before its call. tsw, dfw: the thread whose write the timestamp
\* tested and the Series returned came from; wts, wseq: the timestamp the
\* thread stored and the position of its write among all writes
IdleThread ==
    [pc |-> "idle", praw |-> <<>>, prov |-> <<>>, key |-> <<>>, hit |-> FALSE,
     tsw |-> 0, dfw |-> 0, events |-> <<>>, pres |-> NotCalled, yres |-> NotCalled,
     res |-> NotCalled, wrote |-> FALSE, wts |-> -1, wseq |-> 0]

InitConc ==
    /\ cache = <<>>
    /\ heap = <<>>
    /\ clock = 0
    /\ ticks = 0
    /\ calls = 0
    /\ held = 0
    /\ apikey = <<>>
    /\ last = NoCall
    /\ stored = <<>>
    /\ dirty = {}
    /\ heldkey = <<>>
    /\ op = "init"
    /\ NormIdle
    /\ lcd = NotApplied /\ kreq = <<>> /\ kkey = <<>>
    /\ thr = [t \in Threads |-> IdleThread]
    /\ wids = <<>>

\* the call starts: defaults, provider, cache key, and the freshness test
\* cache_key in _CACHE and _now() - _CACHE[cache_key]["ts"] < _TTL_SEC
Begin(t) ==
    /\ thr[t].pc = "idle"
    /\ \A u \in 1..(t - 1) : thr[u].pc # "idle"
    /\ \E rq \in ConcRequests :
          LET fresh == CacheFresh(cache, rq.key, clock) IN
          thr' = [thr EXCEPT ![t] =
                    [IdleThread EXCEPT !.pc = IF fresh THEN "hit" ELSE "miss",
                                       !.praw = rq.praw, !.prov = rq.prov, !.key = rq.key,
                                       !.tsw = IF fresh THEN wids[rq.key] ELSE 0]]
    /\ calls' = calls + 1
    /\ op' = "begin"
    /\ UNCHANGED <<cache, heap, clock, ticks, held, apikey, last, stored, dirty, heldkey,
                   normVars, lcd, kreq, kkey, wids>>

\* return _CACHE[cache_key]["df"].copy(): a second lookup of the entry
HitReturn(t) ==
    /\ thr[t].pc = "hit"
    /\ LET cp == DfCopy(heap, cache[thr[t].key].df) IN
       thr' = [thr EXCEPT ![t].pc = "done", ![t].hit = TRUE,
                          ![t].dfw = wids[thr[t].key],
                          ![t].res = Success(cp.heap[cp.ref])]
    /\ op' = "hit"
    /\ UNCHANGED <<cache, heap, clock, ticks, calls, held, apikey, last, stored, dirty,
                   heldkey, normVars, lcd, kreq, kkey, wids>>

\* the rest of the call after a miss: the provider stages, _normalize_df,
\* _CACHE[cache_key] = {"ts": _now(), "df": df.copy()}, return df
MissReturn(t) ==
    /\ thr[t].pc = "miss"
    /\ \E rq \in ConcRequests :
          /\ rq.key = thr[t].key /\ rq.praw = thr[t].praw
          /\ \E o \in rq.outcomes[apikey] :
                LET obj == NewObject(heap, o.res.df)
                    cp == DfCopy(obj.heap, obj.ref)
                    entry == [ts |-> clock, df |-> cp.ref]
                    n == Cardinality({u \in Threads : thr[u].wrote})
                IN
                /\ thr' = [thr EXCEPT ![t].pc = "done", ![t].events = o.events,
                                      ![t].pres = o.pres, ![t].yres = o.yres,
                                      ![t].res = o.res, ![t].wrote = Stores(o),
                                      ![t].wts = IF Stores(o) THEN clock ELSE -1,
                                      ![t].wseq = IF Stores(o) THEN n + 1 ELSE 0]
                /\ IF Stores(o)
                   THEN /\ cache' = CachePut(cache, rq.key, entry)
                        /\ heap' = Live(cp.heap, cache', 0)
                        /\ wids' = [k \in DOMAIN wids \cup {rq.key} |->
                                      IF k \in DOMAIN cache' /\ cache'[k] = entry
                                      THEN t ELSE wids[k]]
                   ELSE UNCHANGED <<cache, heap, wids>>
    /\ op' = "miss"
    /\ UNCHANGED <<clock, ticks, calls, held, apikey, last, stored, dirty, heldkey,
                   normVars, lcd, kreq, kkey>>

\* the entries written so far pass their TTL
Elapse ==
    /\ ticks < ConcTicks
    /\ clock' = clock + _TTL_SEC
    /\ ticks' = ticks + 1
    /\ op' = "tick"
    /\ UNCHANGED <<cache, heap, calls, held, apikey, last, stored, dirty, heldkey, normVars,
                   auxVars>>

NextConc == (\E t \in Threads : Begin(t) \/ HitReturn(t) \/ MissReturn(t)) \/ Elapse

SpecConc == InitConc /\ [][NextConc]_vars

----------------------------------------------------------------------------
\* Properties

Has(evs, e) == \E i \in 1..Len(evs) : evs[i] = e

\* the network calls among a call's events
NetCalls(evs) ==
    Cardinality({i \in 1..Len(evs) : evs[i] \in {"GET polygon", "download yahoo"}})

\* what the cache holds: for each key the timestamp and the Series' contents
CacheView == [k \in DOMAIN cache |-> [ts |-> cache[k].ts, df |-> heap[cache[k].df]]]

\* how often e occurs among a call's events
Count(evs, e) == Cardinality({i \in 1..Len(evs) : evs[i] = e})

Called(l) == l.praw # <<>>
PolygonFailed(l) == l.pres # NotCalled /\ ~l.pres.ok
YahooFailed(l) == l.yres # NotCalled /\ ~l.yres.ok

\* C1: in auto mode, after a cache miss, any failure of the Polygon adapter is
\* followed by a Yahoo attempt; if Yahoo succeeds the call succeeds with
\* Yahoo's data, and if Yahoo fails the caller sees Yahoo's error, never
\* Polygon's.
AutoFallback ==
    (Called(last) /\ last.prov = sAuto /\ ~last.hit /\ PolygonFailed(last)) =>
        /\ \E i, j \in 1..Len(last.events) :
              i < j /\ last.events[i] = "polygon" /\ last.events[j] = "yahoo"
        /\ Has(last.events, "warn")
        /\ last.yres # NotCalled
        /\ last.yres.ok => (last.res.ok /\ last.res.df = last.yres.df)
        /\ ~last.yres.ok => (~last.res.ok /\ last.res.exc = last.yres.exc)
        /\ last.res.exc # last.pres.exc

AutoFallbackWitness ==
    /\ last.prov = sAuto /\ ~last.hit
    /\ PolygonFailed(last) /\ last.pres.exc.what = "Polygon error"
    /\ last.yres.ok /\ last.res.ok /\ ~IsEmpty(last.res.df)

\* C2: with provider polygon (resp. yahoo), after a cache miss, only the
\* Polygon (resp. Yahoo) adapter is called, and its failure is the call's
\* failure, unchanged.
ForcedProviderStrict ==
    /\ (Called(last) /\ last.prov = sPolygon /\ ~last.hit) =>
          /\ Has(last.events, "polygon")
          /\ ~Has(last.events, "yahoo") /\ ~Has(last.events, "download yahoo")
          /\ last.yres = NotCalled
          /\ ~last.pres.ok => last.res = last.pres
    /\ (Called(last) /\ last.prov = sYahoo /\ ~last.hit) =>
          /\ Has(last.events, "yahoo")
          /\ ~Has(last.events, "polygon") /\ ~Has(last.events, "GET polygon")
          /\ last.pres = NotCalled
          /\ ~last.yres.ok => last.res = last.yres

ForcedProviderWitness ==
    /\ last.prov = sPolygon /\ ~last.hit
    /\ PolygonFailed(last) /\ last.res = last.pres
    /\ last.res.exc.what = "No Polygon data for"

\* C3 as stated: a call made less than the TTL after a successful call with
\* the same key calls no provider and returns what that call returned, and the
\* two calls together make at most one network call.
CacheHitAtMostOneCall ==
    (Called(last) /\ last.since >= 0 /\ last.since < 900) =>
        /\ last.events = <<>>
        /\ last.res = Success(last.prior)
        /\ NetCalls(stored[last.key].events) + NetCalls(last.events) <= 1

\* C3 as amended: a call made less than the TTL after a successful call with
\* the same key calls no provider and returns what that call returned, so the
\* two calls together make only the network calls of the first: at most one
\* with a forced provider, at most two in auto mode.
CacheHitNoIO ==
    (Called(last) /\ last.since >= 0 /\ last.since < 900) =>
        /\ last.hit
        /\ last.events = <<>>
        /\ last.res = Success(last.prior)
        /\ NetCalls(stored[last.key].events) + NetCalls(last.events)
             <= (IF last.prov = sAuto THEN 2 ELSE 1)

CacheHitWitness ==
    /\ last.hit /\ last.since = 899
    /\ ~IsEmpty(last.res.df)
    /\ NetCalls(stored[last.key].events) = 1

\* C4: an entry is served only while its age is strictly below 900 seconds;
\* at age 900 or more the call goes to the providers again, and when that
\* fetch fails the error is what the caller gets, not the stale Series.
CacheExpiry ==
    /\ (Called(last) /\ last.hit) => (last.since >= 0 /\ last.since < 900)
    /\ (Called(last) /\ last.since >= 900) =>
          /\ ~last.hit
          /\ Has(last.events, "polygon") \/ Has(last.events, "yahoo")
          /\ (PolygonFailed(last) /\ last.yres = NotCalled) => last.res = last.pres
          /\ YahooFailed(last) => last.res = last.yres
          /\ last.res.ok => (last.pres.ok \/ last.yres.ok)
          /\ last.pres.ok => last.res = normalize_df(last.pres.df)
          /\ last.yres.ok => last.res = normalize_df(last.yres.df)

CacheExpiryWitness ==
    /\ Called(last) /\ last.since = 900 /\ ~last.hit
    /\ ~IsEmpty(last.prior)
    /\ ~last.res.ok
    /\ last.key \in DOMAIN cache

\* C5: a call returns a non-empty Series or fails, and no empty Series is
\* cached.
NonEmptyOrError ==
    /\ last.res.ok => ~IsEmpty(last.res.df)
    /\ \A k \in DOMAIN cache : ~IsEmpty(heap[cache[k].df])

\* the Series invariants: dates strictly ascending, Close and Adj Close
\* present and not missing in every row
SeriesSchema(df) ==
    /\ HasCol(df, sClose) /\ HasCol(df, sAdjClose)
    /\ \A i, j \in 1..Len(df.rows) : i < j => df.rows[i].idx.d < df.rows[j].idx.d
    /\ \A i \in 1..Len(df.rows) :
          /\ df.rows[i].vals[ColIdx(df, sClose)] # NaN
          /\ df.rows[i].vals[ColIdx(df, sAdjClose)] # NaN

\* C6: the Series a call returns, and the Series it caches, satisfies the
\* Series invariants whatever the provider's raw rows were.
SchemaInvariant ==
    /\ last.res.ok => SeriesSchema(last.res.df)
    /\ \A k \in DOMAIN cache : SeriesSchema(heap[cache[k].df])

\* C7: the Series stored in a cache entry stays as it was when stored,
\* whatever callers do to the Series they were handed, and a hit returns it
\* in that state.
DefensiveCopy ==
    /\ \A k \in DOMAIN cache : heap[cache[k].df] = stored[k].df
    /\ last.hit => last.res.df = stored[last.key].df

DefensiveCopyWitness ==
    /\ op = "fetch" /\ last.hit /\ last.key \in dirty
    /\ ~IsEmpty(last.res.df)

\* C8: normalizing a normalized table gives the same table: same columns,
\* same rows, same order.
IdempotentNormalize == npc = "twice" => ntwice = nonce

IdempotentWitness ==
    /\ npc = "twice"
    /\ nraw.rows # <<>> /\ nraw.rows[1].idx.k = "str"
    /\ Len(nonce.df.rows) < Len(nraw.rows)
    /\ Len(nonce.df.cols) > Len(nraw.cols)
    /\ nonce.df.cols # nraw.cols \o <<sAdjClose>>

\* C9: a provider that differs from auto, polygon, yahoo only by letter case
\* is taken as that value; any other provider is rejected with an error that
\* names it, with no adapter call and no cache write.
ProviderConstraint ==
    Called(last) =>
        IF StrLower(last.praw) \in {sAuto, sPolygon, sYahoo}
        THEN last.prov = StrLower(last.praw)
        ELSE /\ ~last.res.ok
             /\ last.res.exc.about = last.praw
             /\ last.events = <<>>
             /\ ~last.wrote /\ cache = <<>>

LatestCloseIsLastBar ==
    lcd # NotApplied =>
        IF last.res.df.rows = <<>>
        THEN ~lcd.ok /\ lcd.exc.type = "IndexError"
        ELSE /\ lcd.ok
             /\ lcd.date.k = "ts"
             /\ lcd.date.d = last.res.df.rows[Len(last.res.df.rows)].idx.d

LatestCloseWitness ==
    /\ lcd.ok /\ last.res.ok
    /\ Len(last.res.df.rows) = 2
    /\ last.res.df.rows[1].idx.d # last.res.df.rows[2].idx.d
    /\ lcd.date = last.res.df.rows[2].idx


\* C12: two requests have the same cache key exactly when they agree on the
\* five canonical fields, also when field values contain '|' or '='.
KeyInjective ==
    kkey # <<>> =>
        ((kkey[1] = kkey[2]) <=>
            (CanonRequest(kreq[1].ticker, kreq[1].start, kreq[1].end, kreq[1].interval,
                          kreq[1].provider)
             = CanonRequest(kreq[2].ticker, kreq[2].start, kreq[2].end, kreq[2].interval,
                            kreq[2].provider)))


\* C13: in every call each adapter is attempted at most once, so at most two
\* network calls are made; when both are attempted Polygon comes first and has
\* failed; the fallback warning is emitted once exactly when the call is in
\* auto mode and its Polygon attempt failed, and never on a cache hit.
AttemptOrder ==
    Called(last) =>
        /\ Count(last.events, "polygon") <= 1
        /\ Count(last.events, "yahoo") <= 1
        /\ Count(last.events, "GET polygon") <= Count(last.events, "polygon")
        /\ Count(last.events, "download yahoo") <= Count(last.events, "yahoo")
        /\ NetCalls(last.events) <= 2
        /\ \A i, j \in 1..Len(last.events) :
              (last.events[i] = "polygon" /\ last.events[j] = "yahoo") =>
                  (i < j /\ PolygonFailed(last))
        /\ Count(last.events, "warn")
              = (IF ~last.hit /\ last.prov = sAuto /\ PolygonFailed(last) THEN 1 ELSE 0)
        /\ last.hit => (last.events = <<>> /\ last.pres = NotCalled /\ last.yres = NotCalled)

AttemptOrderWitness ==
    /\ calls = 2
    /\ ~last.hit
    /\ last.prov = sAuto
    /\ last.events = <<"polygon", "GET polygon", "warn", "yahoo", "download yahoo">>
    /\ last.res.ok


\* C16: a call that ends in an error writes nothing: every cache entry keeps
\* its timestamp and Series; the cache changes in a call only when a provider
\* succeeded and normalization succeeded.
FailureKeepsCache ==
    [][(calls' = calls + 1) =>
          /\ ~last'.res.ok => (CacheView' = CacheView /\ ~last'.wrote)
          /\ (CacheView' # CacheView \/ last'.wrote) =>
                /\ last'.res.ok
                /\ last'.pres.ok \/ last'.yres.ok
                /\ last'.res = normalize_df(IF last'.pres.ok THEN last'.pres.df
                                            ELSE last'.yres.df)]_vars

FailureKeepsCacheWitness ==
    /\ Called(last) /\ ~last.res.ok /\ ~last.hit
    /\ last.since >= _TTL_SEC
    /\ last.key \in DOMAIN cache
    /\ cache[last.key].ts = stored[last.key].at
    /\ heap[cache[last.key].df] = last.prior


\* C17: a Series returned for a 'polygon' request comes from a successful
\* Polygon adapter call and one returned for a 'yahoo' request from a
\* successful Yahoo adapter call, made in this call or in the earlier call
\* that cached it; what an auto-mode call cached is served to auto-mode
\* requests only.
Provenance ==
    (Called(last) /\ last.res.ok) =>
        LET evs == IF last.hit THEN stored[last.key].events ELSE last.events IN
        /\ last.hit => /\ stored[last.key].by = last.prov
                       /\ last.res.df = stored[last.key].df
        /\ last.prov = sPolygon =>
              /\ Has(evs, "GET polygon") /\ ~Has(evs, "yahoo")
              /\ ~last.hit => (last.pres.ok /\ last.res = normalize_df(last.pres.df))
        /\ last.prov = sYahoo =>
              /\ Has(evs, "download yahoo") /\ ~Has(evs, "polygon")
              /\ ~last.hit => (last.yres.ok /\ last.res = normalize_df(last.yres.df))
        /\ \A k \in DOMAIN stored :
              (stored[k].by = sAuto /\ last.hit /\ k = last.key) => last.prov = sAuto

\* an auto-mode call cached a Yahoo fallback; the next call, forced to a
\* provider while that entry is fresh, is not served from it
ProvenanceWitness ==
    /\ Called(last) /\ last.res.ok /\ ~last.hit
    /\ last.prov \in {sPolygon, sYahoo}
    /\ \E k \in DOMAIN stored :
          /\ stored[k].by = sAuto
          /\ Has(stored[k].events, "download yahoo")
          /\ CacheFresh(cache, k, clock)


\* C18: no step removes a cache entry; time passing and the caller's edits
\* leave every entry as it is, an entry past its TTL is not read but stays
\* until a successful fetch for its key replaces it, and a successful fetch
\* puts the new timestamp and Series under its key whatever was there.
NoEviction ==
    [][/\ DOMAIN cache \subseteq DOMAIN cache'
       /\ calls' = calls => CacheView' = CacheView
       /\ calls' = calls + 1 =>
             /\ (last'.key \in DOMAIN cache /\ clock - cache[last'.key].ts >= _TTL_SEC) =>
                   ~last'.hit
             /\ (~last'.hit /\ last'.res.ok) => last'.wrote
             /\ ~last'.wrote => CacheView' = CacheView
             /\ last'.wrote =>
                   /\ DOMAIN cache' = DOMAIN cache \cup {last'.key}
                   /\ CacheView'[last'.key] = [ts |-> clock, df |-> last'.res.df]
                   /\ \A k \in DOMAIN cache \ {last'.key} : CacheView'[k] = CacheView[k]]_vars

\* a stale entry has been replaced by a later successful fetch
NoEvictionWitness ==
    /\ Called(last) /\ last.wrote
    /\ last.since >= _TTL_SEC
    /\ last.prior # last.res.df
    /\ cache[last.key].ts = clock
    /\ heap[cache[last.key].df] = last.res.df


\* C19: when the raw table has an adjusted-close column named 'adjclose' or
\* 'adj_close', in any letter case and with any surrounding whitespace, the
\* normalized Adj Close column holds that column's values for the rows kept
\* (seen on tables that keep at least one row);
\* Adj Close is a copy of Close only when the raw table has no adjusted-close
\* column under any known name.
SynonymMapping ==
    (npc = "once" /\ nonce.ok /\ nonce.df.rows # <<>>) =>
        LET lower(c) == StrLower(StrStrip(c))
            synonym(c) == lower(c) \in {<<"a","d","j","c","l","o","s","e">>,
                                        <<"a","d","j","_","c","l","o","s","e">>}
            known(c) == synonym(c) \/ lower(c) = StrLower(sAdjClose)
            close == {i \in 1..Len(nraw.cols) : lower(nraw.cols[i]) = StrLower(sClose)}
            kept == NotNaRows(nraw.rows, CHOOSE i \in close : TRUE)
            out == nonce.df
        IN  /\ \A a \in 1..Len(nraw.cols) :
                  synonym(nraw.cols[a]) =>
                      /\ HasCol(out, sAdjClose)
                      /\ Len(out.rows) = Len(kept)
                      /\ \A i \in 1..Len(out.rows) :
                            out.rows[i].vals[ColIdx(out, sAdjClose)] = kept[i].vals[a]
            /\ Len(out.cols) > Len(nraw.cols) =>
                  ~\E a \in 1..Len(nraw.cols) : known(nraw.cols[a])


\* C20: the Polygon adapter's aggregate request has multiplier 1, with
\* timespan 'minute' when the interval is an intraday one and 'day'
\* otherwise; an intraday interval is never requested as daily bars.
IntervalResolution ==
    (Called(last) /\ Has(last.events, "GET polygon")) =>
        LET intraday == {<<"1","m">>, <<"2","m">>, <<"5","m">>, <<"1","5","m">>,
                         <<"3","0","m">>, <<"6","0","m">>, <<"9","0","m">>, <<"1","h">>,
                         <<"1","m","i","n">>, <<"m","i","n","u","t","e">>}
        IN  /\ last.span.mult = 1
            /\ last.span.timespan
                  = (IF StrLower(last.interval) \in intraday THEN "minute" ELSE "day")

\* C14: under concurrent callers a cache hit never mixes two writes: the
\* timestamp tested for freshness and the Series returned come from the same
\* write of the entry.
NoTornRead ==
    \A t \in Threads :
        (thr[t].pc = "done" /\ thr[t].hit) => thr[t].tsw = thr[t].dfw


\* C15: concurrent calls are not de-duplicated and the last write wins: every
\* call that missed and succeeded made its own provider fetch, returned the
\* Series of that fetch and wrote the cache; the entry of a key holds the
\* timestamp and Series of the write that came last.
LastWriteWins ==
    /\ \A t \in Threads :
          (thr[t].pc = "done" /\ ~thr[t].hit) =>
              /\ thr[t].wrote = thr[t].res.ok
              /\ thr[t].res.ok =>
                    /\ NetCalls(thr[t].events) >= 1
                    /\ thr[t].pres.ok \/ thr[t].yres.ok
                    /\ thr[t].res = normalize_df(IF thr[t].pres.ok THEN thr[t].pres.df
                                                 ELSE thr[t].yres.df)
    /\ \A k \in DOMAIN cache :
          \E w \in Threads :
              /\ thr[w].wrote /\ thr[w].key = k
              /\ \A u \in Threads :
                    (thr[u].wrote /\ thr[u].key = k) => thr[u].wseq <= thr[w].wseq
              /\ CacheView[k] = [ts |-> thr[w].wts, df |-> thr[w].res.df]

\* two calls for the same key that both missed at the same time, both
\* fetched and both wrote, with different Series; the later write is stored
LastWriteWinsWitness ==
    \E a, b \in Threads :
        /\ thr[a].pc = "done" /\ thr[b].pc = "done"
        /\ ~thr[a].hit /\ ~thr[b].hit
        /\ thr[a].wrote /\ thr[b].wrote
        /\ thr[a].key = thr[b].key
        /\ thr[a].wts = thr[b].wts
        /\ thr[a].res.df # thr[b].res.df
        /\ thr[a].wseq < thr[b].wseq
        /\ heap[cache[thr[b].key].df] = thr[b].res.df

====
